---- MODULE Spec2Model ----
(***************************************************************************)
(* LevelDataProvider (src/src/LevelDataProvider.ts): a data provider that  *)
(* stores per-guild and global key/value pairs in a Level database.        *)
(*                                                                         *)
(* Strings are sequences of UTF-16 code units (all ASCII here, so Level's  *)
(* bytewise order on the utf8 keys is the order of the code units).  A     *)
(* JavaScript value is a record [type, b, n, s].  The Level database is a  *)
(* function from store keys to the stored JSON texts.                      *)
(***************************************************************************)
EXTENDS Integers, Sequences, FiniteSets, TLC

VARIABLES world, status, db, pending, last, shadow

vars == <<world, status, db, pending, last, shadow>>

----------------------------------------------------------------------------
(* Bounds of the model *)

\* the most entries the database holds
MaxEntries == 2

\* the most delete calls in flight between their read and their del
MaxInFlight == 1

----------------------------------------------------------------------------
(* Characters and strings *)

\* ':'.charCodeAt(0)
Colon == 58

\* '"', the delimiter of a JSON string
Quote == 34

\* '\', the JSON escape character
Backslash == 92

\* '0', the first decimal digit
Zero == 48

\* 'global'
GLOBAL == <<103, 108, 111, 98, 97, 108>>

\* a < b for strings, as Level orders its keys (bytewise, shorter prefix first)
LexLess(a, b) ==
  \E i \in 1..Len(b) :
    /\ \A j \in 1..(i - 1) : j <= Len(a) /\ a[j] = b[j]
    /\ (i <= Len(a) => a[i] < b[i])

LexLeq(a, b) == a = b \/ LexLess(a, b)

StartsWith(s, p) == Len(p) <= Len(s) /\ SubSeq(s, 1, Len(p)) = p

HasColon(s) == \E i \in 1..Len(s) : s[i] = Colon

----------------------------------------------------------------------------
(* JavaScript values *)

Undefined == [type |-> "undefined", b |-> FALSE, n |-> 0, s |-> <<>>]
Null == [type |-> "null", b |-> FALSE, n |-> 0, s |-> <<>>]
Bool(x) == [type |-> "boolean", b |-> x, n |-> 0, s |-> <<>>]
Num(x) == [type |-> "number", b |-> FALSE, n |-> x, s |-> <<>>]
Str(x) == [type |-> "string", b |-> FALSE, n |-> 0, s |-> x]

\* ToBoolean: undefined, null, false, 0 and '' are falsy
Truthy(v) ==
  CASE v.type = "undefined" -> FALSE
    [] v.type = "null" -> FALSE
    [] v.type = "boolean" -> v.b
    [] v.type = "number" -> v.n # 0
    [] OTHER -> Len(v.s) > 0

----------------------------------------------------------------------------
(* JSON text *)

TextNull == <<110, 117, 108, 108>>
TextTrue == <<116, 114, 117, 101>>
TextFalse == <<102, 97, 108, 115, 101>>

RECURSIVE Digits(_)
Digits(n) ==
  IF n < 10 THEN <<Zero + n>> ELSE Append(Digits(n \div 10), Zero + (n % 10))

RECURSIVE Escape(_)
Escape(s) ==
  IF s = <<>> THEN <<>>
  ELSE (IF Head(s) \in {Quote, Backslash} THEN <<Backslash, Head(s)>> ELSE <<Head(s)>>)
       \o Escape(Tail(s))

\* JSON.stringify(v) of a value other than undefined
JSONstringify(v) ==
  CASE v.type = "null" -> TextNull
    [] v.type = "boolean" -> (IF v.b THEN TextTrue ELSE TextFalse)
    [] v.type = "number" -> Digits(v.n)
    [] OTHER -> <<Quote>> \o Escape(v.s) \o <<Quote>>

IsDigit(c) == Zero <= c /\ c <= Zero + 9

RECURSIVE NatOf(_)
NatOf(t) ==
  IF Len(t) = 1 THEN t[1] - Zero
  ELSE 10 * NatOf(SubSeq(t, 1, Len(t) - 1)) + (t[Len(t)] - Zero)

\* the body of a JSON string literal is well formed: every '\' escapes a
\* '"' or a '\', and no '"' stands alone
RECURSIVE EscapedOk(_)
EscapedOk(t) ==
  IF t = <<>> THEN TRUE
  ELSE IF Head(t) = Backslash
       THEN Len(t) >= 2 /\ t[2] \in {Quote, Backslash} /\ EscapedOk(SubSeq(t, 3, Len(t)))
       ELSE Head(t) # Quote /\ EscapedOk(Tail(t))

RECURSIVE Unescape(_)
Unescape(t) ==
  IF t = <<>> THEN <<>>
  ELSE IF Head(t) = Backslash
       THEN <<t[2]>> \o Unescape(SubSeq(t, 3, Len(t)))
       ELSE <<Head(t)>> \o Unescape(Tail(t))

\* JSON.parse(t): [ok, val]; not ok is a SyntaxError
JSONparse(t) ==
  IF t = TextNull THEN [ok |-> TRUE, val |-> Null]
  ELSE IF t = TextTrue THEN [ok |-> TRUE, val |-> Bool(TRUE)]
  ELSE IF t = TextFalse THEN [ok |-> TRUE, val |-> Bool(FALSE)]
  ELSE IF Len(t) >= 1 /\ (\A i \in 1..Len(t) : IsDigit(t[i]))
            /\ (Len(t) = 1 \/ t[1] # Zero)
       THEN [ok |-> TRUE, val |-> Num(NatOf(t))]
  ELSE IF Len(t) >= 2 /\ t[1] = Quote /\ t[Len(t)] = Quote
            /\ EscapedOk(SubSeq(t, 2, Len(t) - 1))
       THEN [ok |-> TRUE, val |-> Str(Unescape(SubSeq(t, 2, Len(t) - 1)))]
  ELSE [ok |-> FALSE, val |-> Undefined]

----------------------------------------------------------------------------
(* Scopes, inputs *)

Global == [guild |-> FALSE, id |-> <<>>]
Guild(id) == [guild |-> TRUE, id |-> id]

\* guild ids: '1', '11' (digits, as Discord's snowflakes), '1:' and 'global'
Id1 == <<49>>
Id11 == <<49, 49>>
Id1Colon == <<49, Colon>>

\* logical keys: '', '1' and ':'
KeyEmpty == <<>>
Key1 == <<49>>
KeyColon == <<Colon>>

\* What the callers of one run use: the guilds the client is in, the logical
\* keys, the values stored, the defaults handed to get, whether store calls
\* may fail, and whether the caller awaits each call before it makes the
\* next.  One world is rich in values, the others in keys.
World(g, k, v, d, f) ==
  [guilds |-> g, keys |-> k, values |-> v, defaults |-> d, fails |-> f, awaits |-> TRUE]

Worlds ==
  { World({Id1}, {Key1},
          {Undefined, Null, Bool(FALSE), Num(0), Str(<<>>), Num(5)},
          {Undefined, Null, Bool(FALSE), Num(0), Str(<<>>), Num(5)}, BOOLEAN),
    World({Id1, Id11}, {KeyEmpty, Key1}, {Null, Num(5)}, {Undefined}, {FALSE}),
    World({Id1}, {Key1, KeyColon}, {Null, Num(5)}, {Undefined}, {FALSE}),
    World({Id1, Id1Colon}, {KeyEmpty, KeyColon}, {Num(5)}, {Undefined}, {FALSE}),
    World({Id1, GLOBAL}, {Key1}, {Num(0), Num(5)}, {Undefined, Num(5)}, {FALSE}) }

\* the world of the interleaved runs: calls are made while others are in flight
ConcWorlds ==
  { [World({Id1}, {Key1}, {Num(0), Num(5)}, {Undefined}, {FALSE}) EXCEPT !.awaits = FALSE] }

Scopes == {Global} \cup {Guild(g) : g \in world.guilds}

\* a guild id that holds no ':' and is not 'global', as every snowflake
PlainId(id) == ~HasColon(id) /\ id # GLOBAL
PlainGuilds == \A g \in world.guilds : PlainId(g)

----------------------------------------------------------------------------
(* The Level database, as the provider uses it *)

NoPayload == [tag |-> "none", id |-> <<>>]
StoreStep(name, err) == [kind |-> "store", name |-> name, err |-> err, payload |-> NoPayload]
Emit(name, payload) == [kind |-> "emit", name |-> name, err |-> "none", payload |-> payload]

\* why a store call fails other than by a missing key: the database is not
\* open, or the caller of the model chose an I/O failure
StoreError(st, fail) ==
  IF st # "open" THEN "LEVEL_DATABASE_NOT_OPEN" ELSE IF fail THEN "LEVEL_IO_ERROR" ELSE "none"

\* db.open(options)
StoreOpen(st, fail) ==
  IF fail THEN [err |-> "LEVEL_DATABASE_NOT_OPEN", status |-> st]
  ELSE [err |-> "none", status |-> "open"]

\* db.close()
StoreClose(st, fail) ==
  IF fail THEN [err |-> "LEVEL_IO_ERROR", status |-> st]
  ELSE [err |-> "none", status |-> "closed"]

\* db.get(key): the text, or an error; a missing key is an error with notFound
StoreGet(store, st, key, fail) ==
  IF StoreError(st, fail) # "none"
  THEN [err |-> StoreError(st, fail), notFound |-> FALSE, val |-> <<>>]
  ELSE IF key \notin DOMAIN store
       THEN [err |-> "LEVEL_NOT_FOUND", notFound |-> TRUE, val |-> <<>>]
       ELSE [err |-> "none", notFound |-> FALSE, val |-> store[key]]

\* db.put(key, text)
StorePut(store, st, key, text, fail) ==
  IF StoreError(st, fail) # "none" THEN [err |-> StoreError(st, fail), db |-> store]
  ELSE [err |-> "none",
        db |-> [k \in DOMAIN store \cup {key} |-> IF k = key THEN text ELSE store[k]]]

\* db.del(key): a missing key is no error
StoreDel(store, st, key, fail) ==
  IF StoreError(st, fail) # "none" THEN [err |-> StoreError(st, fail), db |-> store]
  ELSE [err |-> "none", db |-> [k \in DOMAIN store \ {key} |-> store[k]]]

\* db.clear({ gt, lte }): removes every key k with gt < k <= lte
InRange(k, gt, lte) == LexLess(gt, k) /\ LexLeq(k, lte)

StoreClear(store, st, gt, lte, fail) ==
  IF StoreError(st, fail) # "none" THEN [err |-> StoreError(st, fail), db |-> store]
  ELSE [err |-> "none",
        db |-> [k \in {x \in DOMAIN store : ~InRange(x, gt, lte)} |-> store[k]]]

----------------------------------------------------------------------------
(* The provider's methods.  Each yields the promise's outcome: the value  *)
(* res it resolves, or the error err it rejects with ("none": resolved),  *)
(* the database after it (db), and the store calls and notifications it   *)
(* made, in order (trace).                                                 *)

\* resolveKey without its separator: `${guild.id}${key}`
resolveKey_NoSeparator(key, scope) ==
  IF scope.guild THEN scope.id \o key ELSE GLOBAL \o key

\* resolveKey(key, guild?): a Guild object is always truthy
resolveKey(key, scope) ==
  IF scope.guild THEN scope.id \o <<Colon>> \o key ELSE GLOBAL \o <<Colon>> \o key

\* _get falling back on the default for every falsy parsed value:
\* JSON.parse(...) || defaultValue
_get_OrDefault(store, st, key, defaultValue, fail) ==
  LET r == StoreGet(store, st, key, fail) IN
  IF r.err = "none"
  THEN IF JSONparse(r.val).ok
       THEN [res |-> IF Truthy(JSONparse(r.val).val) THEN JSONparse(r.val).val
                     ELSE defaultValue,
             err |-> "none", trace |-> <<StoreStep("get", "none")>>]
       ELSE [res |-> Undefined, err |-> "SyntaxError",
             trace |-> <<StoreStep("get", "none")>>]
  ELSE IF r.notFound
       THEN [res |-> defaultValue, err |-> "none", trace |-> <<StoreStep("get", r.err)>>]
       ELSE [res |-> Undefined, err |-> r.err, trace |-> <<StoreStep("get", r.err)>>]

\* _get answering every error with the default, not only notFound
_get_SwallowAll(store, st, key, defaultValue, fail) ==
  LET r == StoreGet(store, st, key, fail) IN
  IF r.err = "none" /\ JSONparse(r.val).ok
  THEN [res |-> JSONparse(r.val).val, err |-> "none",
        trace |-> <<StoreStep("get", "none")>>]
  ELSE [res |-> defaultValue, err |-> "none", trace |-> <<StoreStep("get", r.err)>>]

\* _get(key, defaultValue?)
_get(store, st, key, defaultValue, fail) ==
  LET r == StoreGet(store, st, key, fail) IN
  IF r.err = "none"
  THEN IF JSONparse(r.val).ok
       THEN [res |-> JSONparse(r.val).val, err |-> "none",
             trace |-> <<StoreStep("get", "none")>>]
       ELSE [res |-> Undefined, err |-> "SyntaxError",
             trace |-> <<StoreStep("get", "none")>>]
  ELSE IF r.notFound
       THEN [res |-> defaultValue, err |-> "none", trace |-> <<StoreStep("get", r.err)>>]
       ELSE [res |-> Undefined, err |-> r.err, trace |-> <<StoreStep("get", r.err)>>]

\* get handing every default on, the falsy ones too
get_AnyDefault(store, st, guild, key, defaultValue, fail) ==
  _get(store, st, resolveKey(key, guild), defaultValue, fail)

\* get(guild, key, defaultValue?)
get(store, st, guild, key, defaultValue, fail) ==
  IF Truthy(defaultValue)
  THEN _get(store, st, resolveKey(key, guild), defaultValue, fail)
  ELSE _get(store, st, resolveKey(key, guild), Undefined, fail)

\* getGlobal(key, defaultValue?)
getGlobal(store, st, key, defaultValue, fail) ==
  IF Truthy(defaultValue)
  THEN _get(store, st, resolveKey(key, Global), defaultValue, fail)
  ELSE _get(store, st, resolveKey(key, Global), Undefined, fail)

\* _set without its check of undefined: the value is written as null
_set_NoCheck(store, st, key, value, fail) ==
  LET r == StorePut(store, st, key,
                    IF value = Undefined THEN TextNull ELSE JSONstringify(value), fail) IN
  [err |-> r.err, db |-> r.db, trace |-> <<StoreStep("put", r.err)>>]

\* _set(key, value)
_set(store, st, key, value, fail) ==
  IF value = Undefined
  THEN [err |-> "TypeError", db |-> store, trace |-> <<>>]
  ELSE LET r == StorePut(store, st, key, JSONstringify(value), fail) IN
       [err |-> r.err, db |-> r.db, trace |-> <<StoreStep("put", r.err)>>]

\* set(guild, key, value)
set(store, st, guild, key, value, fail) ==
  _set(store, st, resolveKey(key, guild), value, fail)

\* setGlobal(key, value)
setGlobal(store, st, key, value, fail) ==
  _set(store, st, resolveKey(key, Global), value, fail)

\* _delete(key), up to its first await: const data = await this._get(key)
deleteRead(store, st, key, fail) == _get(store, st, key, Undefined, fail)

\* _delete returning the data without deleting the entry
deleteDel_NoDel(store, st, key, data, fail) ==
  [res |-> data, err |-> "none", db |-> store, trace |-> <<StoreStep("del", "none")>>]

\* _delete reading the entry again as it deletes it
deleteDel_Reread(store, st, key, data, fail) ==
  LET r == StoreDel(store, st, key, fail) IN
  [res |-> IF r.err = "none" /\ key \in DOMAIN store THEN JSONparse(store[key]).val
           ELSE Undefined,
   err |-> r.err, db |-> r.db, trace |-> <<StoreStep("del", r.err)>>]

\* _delete(key), from its first await on: await this.db.del(key); return data
deleteDel(store, st, key, data, fail) ==
  LET r == StoreDel(store, st, key, fail) IN
  [res |-> IF r.err = "none" THEN data ELSE Undefined, err |-> r.err, db |-> r.db,
   trace |-> <<StoreStep("del", r.err)>>]

\* the lower bound without its separator
clearGt_NoSeparator(startsWith) == startsWith

\* the bounds _clear(startsWith) hands to db.clear
clearGt(startsWith) == startsWith \o <<Colon>>
clearLte(startsWith) == startsWith \o <<Colon + 1>>

\* _clear(startsWith)
_clear(store, st, startsWith, fail) ==
  LET r == StoreClear(store, st, clearGt(startsWith), clearLte(startsWith), fail) IN
  [err |-> r.err, db |-> r.db, trace |-> <<StoreStep("clear", r.err)>>]

\* clear(guild)
clear(store, st, guild, fail) ==
  LET r == _clear(store, st, guild.id, fail) IN
  [err |-> r.err, db |-> r.db,
   trace |-> IF r.err = "none"
             THEN r.trace \o <<Emit("dataProviderClear", [tag |-> "guild", id |-> guild.id])>>
             ELSE r.trace]

\* clearGlobal()
clearGlobal(store, st, fail) ==
  LET r == _clear(store, st, GLOBAL, fail) IN
  [err |-> r.err, db |-> r.db,
   trace |-> IF r.err = "none"
             THEN r.trace \o <<Emit("dataProviderClear", [tag |-> "null", id |-> <<>>])>>
             ELSE r.trace]

\* init notifying before it opens the database
init_EmitFirst(st, fail) ==
  LET r == StoreOpen(st, fail) IN
  [err |-> r.err, status |-> r.status,
   trace |-> <<Emit("dataProviderInit", [tag |-> "provider", id |-> <<>>]),
               StoreStep("open", r.err)>>]

\* init()
init(st, fail) ==
  LET r == StoreOpen(st, fail) IN
  [err |-> r.err, status |-> r.status,
   trace |-> IF r.err = "none"
             THEN <<StoreStep("open", r.err),
                    Emit("dataProviderInit", [tag |-> "provider", id |-> <<>>])>>
             ELSE <<StoreStep("open", r.err)>>]

\* destroy()
destroy(st, fail) ==
  LET r == StoreClose(st, fail) IN
  [err |-> r.err, status |-> r.status,
   trace |-> IF r.err = "none"
             THEN <<StoreStep("close", r.err),
                    Emit("dataProviderDestroy", [tag |-> "provider", id |-> <<>>])>>
             ELSE <<StoreStep("close", r.err)>>]

----------------------------------------------------------------------------
(* State *)
(*   world    what the callers of this run use (it never changes)          *)
(*   status   the Level database: "new" (constructed, opening deferred),   *)
(*            "open" or "closed"                                           *)
(*   db       the entries of the database: store key -> JSON text          *)
(*   pending  the delete calls between their read and their del           *)
(*   last     the latest step of the provider: the call it completed, its *)
(*            arguments and outcome ("read": a delete call's read), and,   *)
(*            of a delete, whether its entry changed after its read        *)
(*   shadow   the entries callers expect: what the latest successful set   *)
(*            on a scope and key stored, until a delete of that scope and  *)
(*            key or a clear of that scope succeeds                        *)

\* the entry of the database at a key: <<text>>, or <<>> when absent
Cell(store, key) == IF key \in DOMAIN store THEN <<store[key]>> ELSE <<>>

Idle ==
  [busy |-> FALSE, scope |-> Global, key |-> <<>>, data |-> Undefined,
   seen |-> <<>>, raced |-> FALSE, trace |-> <<>>]

Blank ==
  [op |-> "none", scope |-> Global, key |-> <<>>, arg |-> Undefined,
   res |-> Undefined, err |-> "none", trace |-> <<>>, raced |-> FALSE]

Slots == 1..MaxInFlight

\* no delete call is in flight
Quiet == \A i \in Slots : ~pending[i].busy

\* a call may begin: a caller that awaits its calls has none in flight
Ready == world.awaits => Quiet

\* a write to the database marks the deletes in flight whose entry it changed
Touch(p, old, new) ==
  [i \in Slots |->
     IF p[i].busy /\ Cell(old, resolveKey(p[i].key, p[i].scope))
                       # Cell(new, resolveKey(p[i].key, p[i].scope))
     THEN [p[i] EXCEPT !.raced = TRUE] ELSE p[i]]

ShadowDrop(sh, scope, key) == {e \in sh : ~(e.scope = scope /\ e.key = key)}
ShadowPut(sh, scope, key, value) ==
  ShadowDrop(sh, scope, key) \cup {[scope |-> scope, key |-> key, val |-> value]}
ShadowClear(sh, scope) == {e \in sh : e.scope # scope}

Init ==
  /\ world \in Worlds
  /\ status = "new"
  /\ db = <<>>
  /\ pending = [i \in Slots |-> Idle]
  /\ last = Blank
  /\ shadow = {}

InitConc ==
  /\ world \in ConcWorlds
  /\ status = "new"
  /\ db = <<>>
  /\ pending = [i \in Slots |-> Idle]
  /\ last = Blank
  /\ shadow = {}

----------------------------------------------------------------------------
(* Actions: one per call of a method; delete is two, its read and its del *)

CallInit(fail) ==
  LET r == init(status, fail) IN
  /\ Ready
  /\ status' = r.status
  /\ last' = [Blank EXCEPT !.op = "init", !.err = r.err, !.trace = r.trace]
  /\ UNCHANGED <<world, db, pending, shadow>>

CallDestroy(fail) ==
  LET r == destroy(status, fail) IN
  /\ Ready
  /\ status' = r.status
  /\ last' = [Blank EXCEPT !.op = "destroy", !.err = r.err, !.trace = r.trace]
  /\ UNCHANGED <<world, db, pending, shadow>>

\* calls made on a database whose opening is deferred wait for it to open
CallGet(scope, key, defaultValue, fail) ==
  LET r == IF scope.guild THEN get(db, status, scope, key, defaultValue, fail)
           ELSE getGlobal(db, status, key, defaultValue, fail) IN
  /\ Ready
  /\ status # "new"
  /\ last' = [op |-> "get", scope |-> scope, key |-> key, arg |-> defaultValue,
              res |-> r.res, err |-> r.err, trace |-> r.trace, raced |-> FALSE]
  /\ UNCHANGED <<world, status, db, pending, shadow>>

CallSet(scope, key, value, fail) ==
  LET r == IF scope.guild THEN set(db, status, scope, key, value, fail)
           ELSE setGlobal(db, status, key, value, fail) IN
  /\ Ready
  /\ status # "new"
  /\ Cardinality(DOMAIN r.db) <= MaxEntries
  /\ db' = r.db
  /\ pending' = Touch(pending, db, r.db)
  /\ shadow' = IF r.err = "none" THEN ShadowPut(shadow, scope, key, value) ELSE shadow
  /\ last' = [op |-> "set", scope |-> scope, key |-> key, arg |-> value,
              res |-> Undefined, err |-> r.err, trace |-> r.trace, raced |-> FALSE]
  /\ UNCHANGED <<world, status>>

\* delete(guild, key) and deleteGlobal(key), up to the read's result
DeleteRead(i, scope, key, fail) ==
  LET r == deleteRead(db, status, resolveKey(key, scope), fail) IN
  /\ Ready
  /\ status # "new"
  /\ ~pending[i].busy
  /\ IF r.err = "none"
     THEN /\ pending' = [pending EXCEPT ![i] =
                 [busy |-> TRUE, scope |-> scope, key |-> key, data |-> r.res,
                  seen |-> Cell(db, resolveKey(key, scope)), raced |-> FALSE,
                  trace |-> r.trace]]
          /\ last' = [Blank EXCEPT !.op = "read"]
     ELSE /\ pending' = pending
          /\ last' = [op |-> "delete", scope |-> scope, key |-> key, arg |-> Undefined,
                      res |-> Undefined, err |-> r.err, trace |-> r.trace, raced |-> FALSE]
  /\ UNCHANGED <<world, status, db, shadow>>

\* the rest of the delete call in slot i
DeleteDel(i, fail) ==
  LET p == pending[i]
      r == deleteDel(db, status, resolveKey(p.key, p.scope), p.data, fail) IN
  /\ p.busy
  /\ db' = r.db
  /\ pending' = [Touch(pending, db, r.db) EXCEPT ![i] = Idle]
  /\ shadow' = IF r.err = "none" THEN ShadowDrop(shadow, p.scope, p.key) ELSE shadow
  /\ last' = [op |-> "delete", scope |-> p.scope, key |-> p.key, arg |-> Undefined,
              res |-> r.res, err |-> r.err, trace |-> p.trace \o r.trace,
              raced |-> p.raced]
  /\ UNCHANGED <<world, status>>

CallClear(scope, fail) ==
  LET r == IF scope.guild THEN clear(db, status, scope, fail)
           ELSE clearGlobal(db, status, fail) IN
  /\ Ready
  /\ status # "new"
  /\ db' = r.db
  /\ pending' = Touch(pending, db, r.db)
  /\ shadow' = IF r.err = "none" THEN ShadowClear(shadow, scope) ELSE shadow
  /\ last' = [op |-> "clear", scope |-> scope, key |-> <<>>, arg |-> Undefined,
              res |-> Undefined, err |-> r.err, trace |-> r.trace, raced |-> FALSE]
  /\ UNCHANGED <<world, status>>

Next ==
  \/ \E fail \in world.fails : CallInit(fail)
  \/ \E fail \in world.fails : CallDestroy(fail)
  \/ \E scope \in Scopes, key \in world.keys, d \in world.defaults, fail \in world.fails :
       CallGet(scope, key, d, fail)
  \/ \E scope \in Scopes, key \in world.keys, v \in world.values, fail \in world.fails :
       CallSet(scope, key, v, fail)
  \/ \E i \in Slots, scope \in Scopes, key \in world.keys, fail \in world.fails :
       DeleteRead(i, scope, key, fail)
  \/ \E i \in Slots, fail \in world.fails : DeleteDel(i, fail)
  \/ \E scope \in Scopes, fail \in world.fails : CallClear(scope, fail)

\* the caller awaits each call before it makes the next
Spec == Init /\ [][Next]_vars

\* the caller makes calls without awaiting the ones in flight
SpecConc == InitConc /\ [][Next]_vars

----------------------------------------------------------------------------
(* Properties *)

\* the namespace of a scope: the guild's id, or 'global'
Namespace(scope) == IF scope.guild THEN scope.id ELSE GLOBAL

\* the store key of the call that last holds
LastKey == resolveKey(last.key, last.scope)

\* the errors of the store itself: a failed call, a database that is not open
StoreFailures == {"LEVEL_IO_ERROR", "LEVEL_DATABASE_NOT_OPEN"}

\* value v is what the entry `cell` holds: undefined for no entry, else the
\* value whose JSON text is the entry's
Holds(cell, v) ==
  IF cell = <<>> THEN v = Undefined ELSE v # Undefined /\ JSONstringify(v) = cell[1]

\* a get whose store call did not fail returned the value the latest set on
\* its scope and key stored, if no delete or clear removed it since
GetReturnsWhatWasSet ==
  (last.op = "get" /\ last.err \notin StoreFailures) =>
    \A e \in shadow :
      (e.scope = last.scope /\ e.key = last.key) =>
        last.err = "none" /\ last.res = e.val

\* C1, as stated: for every scope (any guild id), key and value other than
\* undefined, get(scope, key) after set(scope, key, v), with no set, delete or
\* clear on that scope and key between, returns v, falsy or not, default or not.
C1_SetThenGet == GetReturnsWhatWasSet

\* C1, amended: the same, when no guild id holds ':' or is 'global'.
C1_SetThenGet_PlainIds == PlainGuilds => GetReturnsWhatWasSet

\* C1's case: a falsy value was stored and a get with a truthy default
\* returned the stored value
C1_Witness ==
  /\ PlainGuilds
  /\ last.op = "get" /\ last.err = "none" /\ Truthy(last.arg)
  /\ \E e \in shadow :
       e.scope = last.scope /\ e.key = last.key /\ ~Truthy(e.val) /\ last.res = e.val

\* distinct (scope, key) pairs have distinct store keys
ResolveKeyInjective ==
  \A S \in Scopes, T \in Scopes, k \in world.keys, k2 \in world.keys :
    (S # T \/ k # k2) => resolveKey(k, S) # resolveKey(k2, T)

\* the step left the entries of every scope but the call's as they were
OtherScopesKept ==
  \A T \in Scopes \ {last'.scope}, k \in world.keys :
    Cell(db', resolveKey(k, T)) = Cell(db, resolveKey(k, T))

\* C2, as stated: for any two scopes, guild ids being any strings, a set or a
\* delete in one never changes what a get in the other returns.
C2_ScopeIsolation ==
  [][last'.op \in {"set", "delete"} => OtherScopesKept]_vars

\* C2, amended: when no guild id holds ':' or is 'global', a set or a delete
\* in one scope never changes an entry of another, and resolveKey is
\* injective on (scope, key).
C2_ScopeIsolation_PlainIds ==
  /\ [](PlainGuilds => ResolveKeyInjective)
  /\ [][(PlainGuilds /\ last'.op \in {"set", "delete"}) => OtherScopesKept]_vars

\* C2's case: a set succeeded in one scope while another scope holds an entry
C2_Witness ==
  /\ PlainGuilds
  /\ last.op = "set" /\ last.err = "none"
  /\ \E T \in Scopes \ {last.scope}, k \in world.keys : resolveKey(k, T) \in DOMAIN db

\* C3: after a clear of a scope that succeeded, no store key that begins with
\* the scope's namespace and ':' is left, the key of the empty logical key
\* included.
C3_ClearComplete ==
  (last.op = "clear" /\ last.err = "none") =>
    \A k \in DOMAIN db : ~StartsWith(k, Namespace(last.scope) \o <<Colon>>)

\* the range a clear of scope S hands to the store holds no key of another scope
RangeHoldsOwnKeysOnly ==
  \A S \in Scopes, T \in Scopes, k \in world.keys :
    S # T => ~InRange(resolveKey(k, T), clearGt(Namespace(S)), clearLte(Namespace(S)))

\* C4, as stated: for all guild ids and keys, a clear of one scope leaves the
\* entries of every other scope as they were.
C4_ClearFrame ==
  [][last'.op = "clear" => OtherScopesKept]_vars

\* C4, amended: when no guild id holds ':' or is 'global', a clear of one
\* scope leaves the entries of every other scope as they were, and the range
\* it hands to the store holds no store key of another scope.
C4_ClearFrame_PlainIds ==
  /\ [](PlainGuilds => RangeHoldsOwnKeysOnly)
  /\ [][(PlainGuilds /\ last'.op = "clear") => OtherScopesKept]_vars

\* C4's case: a clear of a guild succeeded and the entries of another guild
\* and of the global scope are there
C4_Witness ==
  /\ PlainGuilds
  /\ last.op = "clear" /\ last.err = "none" /\ last.scope.guild
  /\ \E k \in world.keys : resolveKey(k, Global) \in DOMAIN db
  /\ \E T \in Scopes \ {last.scope, Global}, k \in world.keys :
       resolveKey(k, T) \in DOMAIN db

C6_SequentialDelete ==
  [][(last'.op = "delete" /\ last'.err \notin StoreFailures) =>
       LET key == resolveKey(last'.key, last'.scope) IN
       /\ last'.err = "none"
       /\ Holds(Cell(db, key), last'.res)
       /\ key \notin DOMAIN db'
       /\ DOMAIN db' = DOMAIN db \ {key}
       /\ \A k \in DOMAIN db' : db'[k] = db[k]]_vars

\* C6's case: a delete returned a stored null, and others' entries are there
C6_Witness ==
  /\ last.op = "delete" /\ last.err = "none" /\ last.res = Null
  /\ LastKey \notin DOMAIN db
  /\ DOMAIN db # {}

\* C7: a set of undefined fails with a TypeError, makes no store call and
\* leaves the store as it was; a set of any other value makes one put, and
\* when the put succeeds the key holds the value's JSON text.
C7_SetUndefined ==
  /\ [][(last'.op = "set" /\ last'.arg = Undefined) =>
          last'.err = "TypeError" /\ last'.trace = <<>> /\ db' = db]_vars
  /\ []((last.op = "set" /\ last.arg # Undefined) =>
          /\ last.err # "TypeError"
          /\ last.trace = <<StoreStep("put", last.err)>>
          /\ (last.err = "none" => Holds(Cell(db, LastKey), last.arg)))

\* C7's case: a set of undefined was refused while its key holds a value
C7_Witness ==
  /\ last.op = "set" /\ last.arg = Undefined /\ last.err = "TypeError"
  /\ LastKey \in DOMAIN db

\* what a call notifies, and the store call it reports
Notification(op, scope) ==
  CASE op = "init" -> Emit("dataProviderInit", [tag |-> "provider", id |-> <<>>])
    [] op = "destroy" -> Emit("dataProviderDestroy", [tag |-> "provider", id |-> <<>>])
    [] OTHER -> IF scope.guild
                THEN Emit("dataProviderClear", [tag |-> "guild", id |-> scope.id])
                ELSE Emit("dataProviderClear", [tag |-> "null", id |-> <<>>])

StoreCallOf(op) ==
  CASE op = "init" -> "open" [] op = "destroy" -> "close" [] OTHER -> "clear"

\* C8: init, destroy and clear first make their store call; when it succeeds
\* the call succeeds and then notifies once, with its payload; when it fails
\* the call fails with that error and notifies nothing.
C8_Notifications ==
  (last.op \in {"init", "destroy", "clear"}) =>
    /\ Len(last.trace) >= 1
    /\ last.trace[1].kind = "store" /\ last.trace[1].name = StoreCallOf(last.op)
    /\ last.err = last.trace[1].err
    /\ IF last.trace[1].err = "none"
       THEN last.trace = <<last.trace[1], Notification(last.op, last.scope)>>
       ELSE Len(last.trace) = 1

\* C8's case: a clear of a guild succeeded and notified with the guild
C8_Witness ==
  /\ last.op = "clear" /\ last.scope.guild /\ last.err = "none"
  /\ Len(last.trace) = 2 /\ last.trace[2].payload.id = last.scope.id

\* the delete call that the step finishes: the slot it frees
Finishing(i) == pending[i].busy /\ ~pending'[i].busy

Failed(i) ==
  /\ last.trace[i].kind = "store"
  /\ last.trace[i].err # "none"
  /\ ~(last.trace[i].name = "get" /\ last.trace[i].err = "LEVEL_NOT_FOUND")

\* C10: a read that finds nothing is the one store failure a call turns into
\* a result: the get resolves, the delete goes on to its del.  A call fails
\* with the error of any other store call of its that failed, and makes no
\* store call after it; a delete whose read so failed makes no del and leaves
\* the store as it was.
C10_ErrorPropagation ==
  /\ [](\A i \in 1..Len(last.trace) :
          /\ Failed(i) => last.err = last.trace[i].err /\ i = Len(last.trace)
          /\ (last.trace[i].kind = "store" /\ last.trace[i].err = "LEVEL_NOT_FOUND") =>
               /\ last.op = "get" => last.err = "none"
               /\ last.op = "delete" =>
                    Len(last.trace) = 2 /\ last.trace[2].name = "del")
  /\ [][(last'.op = "delete" /\ last'.trace[1].err \in StoreFailures) =>
          last'.trace = <<StoreStep("get", last'.err)>> /\ db' = db]_vars

\* C10's case: the read of a delete failed with an I/O error; the delete
\* failed with it and the entry is still there
C10_Witness ==
  /\ last.op = "delete" /\ last.err = "LEVEL_IO_ERROR"
  /\ Len(last.trace) = 1
  /\ LastKey \in DOMAIN db

====
